---- MODULE Spec2Model ----
(***************************************************************************)
(* Model of src/src/application.rs and src/src/main.rs: the               *)
(* Model-Update-View loop (application_loop), its pure transition function *)
(* (update), view, the input mapping (handle_event / handle_key), the      *)
(* terminal session handling of mod tui (init_terminal, restore_terminal,  *)
(* install_panic_hook) and the two commands of main (register_api_key,     *)
(* validate_config_and_run).                                               *)
(*                                                                         *)
(* The specifications share the variables and the update-drain step:       *)
(*   Spec        application_loop called with a 32-byte payload;           *)
(*   SpecFair    Spec with weak fairness of the steps that only compute;   *)
(*   SpecMain    main: login or run against a keyring entry, the run path  *)
(*               continuing into application_loop;                         *)
(*   SpecSeq     a fresh Model::new fed arbitrary message sequences, each  *)
(*               drained as the loop drains it;                            *)
(*   SpecUpdate  the same harness started from an arbitrary Model.         *)
(***************************************************************************)
EXTENDS Integers, Sequences, FiniteSets, TLC

VARIABLES
    pc,             \* position in application_loop (or in the harness)
    payload,        \* the api_key argument of application_loop
    model,          \* `model`, the Model held by the loop
    current_msg,    \* `current_msg`, an Option<Message>
    in_msg,         \* the Option<Message> handle_event returned this iteration
    ev,             \* what the input source delivered this iteration
    iter_model,     \* the Model held when this iteration started
    prev_model,     \* the Model passed to the most recent call of update
    prev_msg,       \* the Message passed to the most recent call of update
    n_updates,      \* calls of update in this iteration
    raw_mode,       \* terminal: raw mode enabled
    alt_screen,     \* terminal: alternate screen entered
    hook_installed, \* the restoring panic hook is the process's panic hook
    trace,          \* session operations performed so far, in order
    err_src,        \* which call produced the Err application_loop returned
    seq_kind,       \* harness: the one message fed so far, or "mixed"
    n_fed,          \* harness: how many times that one message was fed
    viewed,         \* the Model most recently passed to view
    frame,          \* the widgets view most recently rendered
    store,          \* the keyring entry ("monika-cli", "api_key")
    store0,         \* the keyring entry as it was when the process started
    cmd,            \* the command line main was started with
    main_res        \* how register_api_key / validate_config_and_run ended

vars == << pc, payload, model, current_msg, in_msg, ev, iter_model, prev_model,
           prev_msg, n_updates, raw_mode, alt_screen, hook_installed, trace,
           err_src, seq_kind, n_fed, viewed, frame, store, store0, cmd,
           main_res >>

view_vars == << viewed, frame >>
main_vars == << store, store0, cmd, main_res >>

----------------------------------------------------------------------------
(* Bounds of the model *)

\* number of distinct 32-byte payloads tried
NPayloads == 2
\* harness inputs: counters -MaxCounter..MaxCounter plus the i32 extremes
MaxCounter == 54
\* harness: longest run of one and the same message that is counted
MaxFed == 53

----------------------------------------------------------------------------
(* Types *)

API_KEY_LEN == 32

I32_MAX == 2147483647
I32_MIN == -I32_MAX - 1

\* enum RunningState; Running is #[default]
RunningStates == {"Running", "Done"}
RunningState_default == "Running"

\* enum Message, and Option<Message> with "None"
Messages == {"Increment", "Decrement", "Reset", "Quit"}
None == "None"

Payloads == { [i \in 1..API_KEY_LEN |-> (i * p) % 256] : p \in 0..(NPayloads - 1) }

\* placeholder for `model` before line 56 has run
NoModel == [counter |-> 0, running_state |-> "Running", api_key |-> << >>]

\* Model::new
Model_new(api_key) ==
    [api_key |-> api_key, running_state |-> RunningState_default, counter |-> 0]

----------------------------------------------------------------------------
(* i32 arithmetic of `model.counter + 1` and `model.counter - 1`.          *)
(* With overflow checks (debug profile) an overflowing operation panics,   *)
(* without them (release profile) it wraps.                                *)

i32_overflows(a, b) ==
    IF b >= 0 THEN a > I32_MAX - b ELSE a < I32_MIN - b

i32_wrapping_add(a, b) ==
    IF i32_overflows(a, b)
    THEN IF b >= 0 THEN I32_MIN + (b - (I32_MAX - a) - 1)
                   ELSE I32_MAX - ((I32_MIN - b) - a - 1)
    ELSE a + b

----------------------------------------------------------------------------
(* update: (Model, Message) -> (Model, Option<Message>)                    *)

update_Increment_ge(m) ==
    LET new_model == [m EXCEPT !.counter = i32_wrapping_add(m.counter, 1)]
    IN  IF m.counter >= 50 THEN << new_model, "Reset" >> ELSE << new_model, None >>

update_Increment_late(m) ==
    LET new_model == [m EXCEPT !.counter = i32_wrapping_add(m.counter, 1)]
    IN  IF m.counter > 51 THEN << new_model, "Reset" >> ELSE << new_model, None >>

update_Increment(m) ==
    LET new_model == [m EXCEPT !.counter = i32_wrapping_add(m.counter, 1)]
    IN  IF m.counter > 50 THEN << new_model, "Reset" >> ELSE << new_model, None >>

update_Decrement_no_reset(m) ==
    << [m EXCEPT !.counter = i32_wrapping_add(m.counter, -1)], None >>

update_Decrement_le(m) ==
    LET new_model == [m EXCEPT !.counter = i32_wrapping_add(m.counter, -1)]
    IN  IF m.counter <= -50 THEN << new_model, "Reset" >> ELSE << new_model, None >>

update_Decrement(m) ==
    LET new_model == [m EXCEPT !.counter = i32_wrapping_add(m.counter, -1)]
    IN  IF m.counter < -50 THEN << new_model, "Reset" >> ELSE << new_model, None >>

update_Reset_fresh(m) ==
    << Model_new(m.api_key), None >>

update_Reset_noop(m) ==
    << m, None >>

update_Reset_chain(m) ==
    << [m EXCEPT !.counter = 0], "Reset" >>

update_Reset(m) ==
    << [m EXCEPT !.counter = 0], None >>

update_Quit_reset(m) ==
    << [m EXCEPT !.running_state = "Done", !.counter = 0], None >>

update_Quit_wipe(m) ==
    << [m EXCEPT !.running_state = "Done",
                 !.api_key = [i \in 1..API_KEY_LEN |-> 0]], None >>

update_Quit_noop(m) ==
    << m, None >>

update_Quit(m) ==
    << [m EXCEPT !.running_state = "Done"], None >>

update(m, msg) ==
    CASE msg = "Increment" -> update_Increment(m)
      [] msg = "Decrement" -> update_Decrement(m)
      [] msg = "Reset"     -> update_Reset(m)
      [] msg = "Quit"      -> update_Quit(m)

\* the addition or subtraction update performs overflows i32
update_overflows(m, msg) ==
    \/ msg = "Increment" /\ i32_overflows(m.counter, 1)
    \/ msg = "Decrement" /\ i32_overflows(m.counter, -1)

----------------------------------------------------------------------------
(* Input: event::poll, event::read, handle_event, handle_key               *)

KeyCodes == {"j", "k", "q", "x", "J", "Enter", "Esc"}
KeyEventKinds == {"Press", "Repeat", "Release"}
OtherEvents == {"Resize", "Mouse", "FocusGained"}

\* what one call of handle_event meets: poll fails, poll times out (false),
\* read fails, or read delivers an event
Inputs ==
    { [src |-> s, type |-> "-", code |-> "-", kind |-> "-"] :
        s \in {"poll_err", "timeout", "read_err"} }
    \cup { [src |-> "event", type |-> "Key", code |-> c, kind |-> k] :
             c \in KeyCodes, k \in KeyEventKinds }
    \cup { [src |-> "event", type |-> t, code |-> "-", kind |-> "-"] :
             t \in OtherEvents }

NoInput == [src |-> "-", type |-> "-", code |-> "-", kind |-> "-"]

handle_key_any(code) ==
    CASE code = "j" -> "Increment"
      [] code = "k" -> "Decrement"
      [] code = "q" -> "Quit"
      [] OTHER      -> "Reset"

handle_key(code) ==
    CASE code = "j" -> "Increment"
      [] code = "k" -> "Decrement"
      [] code = "q" -> "Quit"
      [] OTHER      -> None

\* "Err" for Err(_), else the Option<Message> inside Ok(_)
handle_event(inp) ==
    IF inp.src \in {"poll_err", "read_err"} THEN "Err"
    ELSE IF inp.src = "event" /\ inp.type = "Key" /\ inp.kind = "Press"
         THEN handle_key(inp.code)
         ELSE None

----------------------------------------------------------------------------
(* view: two bordered blocks "Block 0", "Block 1", each a Paragraph of     *)
(* format!("Counter: {}, API_KEY: {:?}", model.counter, model.api_key).    *)
(* view gets &mut Model: the record holds the Model as view leaves it.     *)

NoFrame == << >>

view_widgets(m) ==
    [i \in 0..1 |->
        [title |-> << "Block ", i >>,
         text  |-> << "Counter: ", m.counter, ", API_KEY: ", m.api_key >>]]

view_clamp(m) ==
    [model |-> [m EXCEPT !.counter = IF m.counter > 50 THEN 50 ELSE m.counter],
     frame |-> view_widgets(m)]

view(m) ==
    [model |-> m, frame |-> view_widgets(m)]

----------------------------------------------------------------------------
(* main.rs: the keyring entry and the command line                         *)

\* no password stored under the entry
NoEntry == [present |-> FALSE, bytes |-> << >>]
\* the password `bytes` stored under the entry
Stored(bytes) == [present |-> TRUE, bytes |-> bytes]
NoCmd == [name |-> "-", key |-> << >>]

\* strings as their UTF-8 bytes (str::len counts bytes): empty, one byte
\* short, exact, one byte long
KeyLens == {0, API_KEY_LEN - 1, API_KEY_LEN, API_KEY_LEN + 1}
Keys == { [i \in 1..n |-> (i * p) % 256] : n \in KeyLens, p \in 0..(NPayloads - 1) }

StoreStates == {NoEntry} \cup { Stored(k) : k \in Keys }

\* `login <API_KEY>`, `run`, or no argument at all (clap prints the help)
Cmds ==
    { [name |-> "login", key |-> k] : k \in Keys }
    \cup { [name |-> "run", key |-> << >>], [name |-> "none", key |-> << >>] }

----------------------------------------------------------------------------
(* application_loop                                                        *)

Init ==
    /\ pc = "start"
    /\ payload \in Payloads
    /\ model = NoModel
    /\ current_msg = None
    /\ in_msg = None
    /\ ev = NoInput
    /\ iter_model = NoModel
    /\ prev_model = NoModel
    /\ prev_msg = None
    /\ n_updates = 0
    /\ raw_mode = FALSE
    /\ alt_screen = FALSE
    /\ hook_installed = FALSE
    /\ trace = << >>
    /\ err_src = "none"
    /\ seq_kind = "none"
    /\ n_fed = 0
    /\ viewed = NoModel
    /\ frame = NoFrame
    /\ store = NoEntry
    /\ store0 = NoEntry
    /\ cmd = NoCmd
    /\ main_res = "-"

install_panic_hook_take_only ==
    /\ pc = "start"
    /\ hook_installed' = FALSE
    /\ trace' = trace
    /\ pc' = "init_terminal"
    /\ UNCHANGED << payload, model, current_msg, in_msg, ev, iter_model,
                    prev_model, prev_msg, n_updates, raw_mode, alt_screen,
                    err_src, seq_kind, n_fed >>
    /\ UNCHANGED main_vars
    /\ UNCHANGED view_vars

\* line 54; tui::install_panic_hook
install_panic_hook ==
    /\ pc = "start"
    /\ hook_installed' = TRUE
    /\ trace' = Append(trace, "install_panic_hook")
    /\ pc' = "init_terminal"
    /\ UNCHANGED << payload, model, current_msg, in_msg, ev, iter_model,
                    prev_model, prev_msg, n_updates, raw_mode, alt_screen,
                    err_src, seq_kind, n_fed >>
    /\ UNCHANGED main_vars
    /\ UNCHANGED view_vars

init_terminal_enable_raw_mode_ignore ==
    /\ pc = "init_terminal"
    /\ \E ok \in BOOLEAN :
         /\ raw_mode' = ok
         /\ trace' = IF ok THEN Append(trace, "enable_raw_mode") ELSE trace
         /\ err_src' = IF ok THEN err_src ELSE "init_terminal"
    /\ pc' = "EnterAlternateScreen"
    /\ UNCHANGED alt_screen
    /\ UNCHANGED << payload, model, current_msg, in_msg, ev, iter_model,
                    prev_model, prev_msg, n_updates, hook_installed,
                    seq_kind, n_fed >>
    /\ UNCHANGED main_vars
    /\ UNCHANGED view_vars

\* line 55 calls tui::init_terminal; its line 177, enable_raw_mode()?: on Err
\* init_terminal and then application_loop return it
init_terminal_enable_raw_mode ==
    /\ pc = "init_terminal"
    /\ \E ok \in BOOLEAN :
         IF ok
         THEN /\ raw_mode' = TRUE
              /\ trace' = Append(trace, "enable_raw_mode")
              /\ pc' = "EnterAlternateScreen" /\ err_src' = err_src
         ELSE /\ pc' = "ret_err" /\ err_src' = "init_terminal"
              /\ UNCHANGED << raw_mode, trace >>
    /\ UNCHANGED alt_screen
    /\ UNCHANGED << payload, model, current_msg, in_msg, ev, iter_model,
                    prev_model, prev_msg, n_updates, hook_installed,
                    seq_kind, n_fed >>
    /\ UNCHANGED main_vars
    /\ UNCHANGED view_vars

\* line 178, stdout().execute(EnterAlternateScreen)?, reached with raw mode
\* on; while the write has not returned the program is in this state
init_terminal_EnterAlternateScreen ==
    /\ pc = "EnterAlternateScreen"
    /\ \E ok \in BOOLEAN :
         IF ok
         THEN /\ alt_screen' = TRUE
              /\ trace' = Append(trace, "EnterAlternateScreen")
              /\ pc' = "Terminal::new" /\ err_src' = err_src
         ELSE /\ pc' = "ret_err" /\ err_src' = "init_terminal"
              /\ UNCHANGED << alt_screen, trace >>
    /\ UNCHANGED raw_mode
    /\ UNCHANGED << payload, model, current_msg, in_msg, ev, iter_model,
                    prev_model, prev_msg, n_updates, hook_installed,
                    seq_kind, n_fed >>
    /\ UNCHANGED main_vars
    /\ UNCHANGED view_vars

\* lines 179-180, Terminal::new(CrosstermBackend::new(stdout()))? and Ok(terminal)
init_terminal_Terminal_new ==
    /\ pc = "Terminal::new"
    /\ \E ok \in BOOLEAN :
         IF ok
         THEN pc' = "model_new" /\ err_src' = err_src
         ELSE pc' = "ret_err" /\ err_src' = "init_terminal"
    /\ UNCHANGED << raw_mode, alt_screen, trace >>
    /\ UNCHANGED << payload, model, current_msg, in_msg, ev, iter_model,
                    prev_model, prev_msg, n_updates, hook_installed,
                    seq_kind, n_fed >>
    /\ UNCHANGED main_vars
    /\ UNCHANGED view_vars

\* line 56
model_new ==
    /\ pc = "model_new"
    /\ model' = Model_new(payload)
    /\ iter_model' = Model_new(payload)
    /\ pc' = "while"
    /\ UNCHANGED << payload, current_msg, in_msg, ev, prev_model, prev_msg,
                    n_updates, raw_mode, alt_screen, hook_installed, trace,
                    err_src, seq_kind, n_fed >>
    /\ UNCHANGED main_vars
    /\ UNCHANGED view_vars

while_test_forever ==
    /\ pc = "while"
    /\ pc' = "draw"
    /\ iter_model' = model
    /\ n_updates' = 0
    /\ in_msg' = None
    /\ UNCHANGED << payload, model, current_msg, ev, prev_model, prev_msg,
                    raw_mode, alt_screen, hook_installed, trace, err_src,
                    seq_kind, n_fed >>
    /\ UNCHANGED main_vars
    /\ UNCHANGED view_vars

\* line 58: the test of the outer while, an iteration starts or the loop exits
while_test ==
    /\ pc = "while"
    /\ pc' = IF model.running_state # "Done" THEN "draw" ELSE "restore_terminal"
    /\ iter_model' = model
    /\ n_updates' = 0
    /\ in_msg' = None
    /\ UNCHANGED << payload, model, current_msg, ev, prev_model, prev_msg,
                    raw_mode, alt_screen, hook_installed, trace, err_src,
                    seq_kind, n_fed >>
    /\ UNCHANGED main_vars
    /\ UNCHANGED view_vars

\* line 60: terminal.draw(|f| view(&mut model, f))?; draw can return Err
\* before it calls the closure (resize) or after it (flush)
draw ==
    /\ pc = "draw"
    /\ \E outcome \in {"ok", "err_before_view", "err_after_view"} :
         /\ IF outcome = "err_before_view"
            THEN UNCHANGED << model, viewed, frame >>
            ELSE /\ viewed' = model
                 /\ model' = view(model).model
                 /\ frame' = view(model).frame
         /\ IF outcome = "ok"
            THEN pc' = "handle_event" /\ err_src' = err_src
            ELSE pc' = "ret_err" /\ err_src' = "draw"
    /\ UNCHANGED << payload, current_msg, in_msg, ev, iter_model,
                    prev_model, prev_msg, n_updates, raw_mode, alt_screen,
                    hook_installed, trace, seq_kind, n_fed >>
    /\ UNCHANGED main_vars

\* line 63: let mut current_msg = handle_event(&model)?
poll_event ==
    /\ pc = "handle_event"
    /\ \E inp \in Inputs :
         /\ ev' = inp
         /\ IF handle_event(inp) = "Err"
            THEN /\ pc' = "ret_err"
                 /\ err_src' = IF inp.src = "poll_err" THEN "poll" ELSE "read"
                 /\ UNCHANGED << current_msg, in_msg >>
            ELSE /\ pc' = "drain"
                 /\ current_msg' = handle_event(inp)
                 /\ in_msg' = handle_event(inp)
                 /\ err_src' = err_src
    /\ UNCHANGED << payload, model, iter_model, prev_model, prev_msg,
                    n_updates, raw_mode, alt_screen, hook_installed, trace,
                    seq_kind, n_fed >>
    /\ UNCHANGED main_vars
    /\ UNCHANGED view_vars

\* lines 66-71: one pass of the inner while; an overflowing counter
\* operation panics (overflow checks on) or wraps (off)
update_step ==
    /\ pc = "drain"
    /\ current_msg # None
    /\ prev_model' = model
    /\ prev_msg' = current_msg
    /\ n_updates' = n_updates + 1
    /\ \E overflow_checks \in BOOLEAN :
         IF update_overflows(model, current_msg) /\ overflow_checks
         THEN /\ pc' = IF hook_installed THEN "panicking" ELSE "panicked"
              /\ UNCHANGED << model, current_msg >>
         ELSE /\ model' = update(model, current_msg)[1]
              /\ current_msg' = update(model, current_msg)[2]
              /\ pc' = pc
    /\ UNCHANGED << payload, in_msg, ev, iter_model, raw_mode, alt_screen,
                    hook_installed, trace, err_src, seq_kind, n_fed >>
    /\ UNCHANGED main_vars
    /\ UNCHANGED view_vars

drain_done_early ==
    /\ pc = "drain"
    /\ n_updates >= 1 \/ current_msg = None
    /\ pc' = "while"
    /\ UNCHANGED << payload, model, current_msg, in_msg, ev, iter_model,
                    prev_model, prev_msg, n_updates, raw_mode, alt_screen,
                    hook_installed, trace, err_src, seq_kind, n_fed >>
    /\ UNCHANGED main_vars
    /\ UNCHANGED view_vars

\* line 66: current_msg.is_some() is false, back to the outer while
drain_done ==
    /\ pc = "drain"
    /\ current_msg = None
    /\ pc' = "while"
    /\ UNCHANGED << payload, model, current_msg, in_msg, ev, iter_model,
                    prev_model, prev_msg, n_updates, raw_mode, alt_screen,
                    hook_installed, trace, err_src, seq_kind, n_fed >>
    /\ UNCHANGED main_vars
    /\ UNCHANGED view_vars

\* lines 74-75; tui::restore_terminal, `fail` the call of it that returns Err
restore_terminal ==
    /\ pc = "restore_terminal"
    /\ \E fail \in {"none", "LeaveAlternateScreen", "disable_raw_mode"} :
         /\ alt_screen' = IF fail = "LeaveAlternateScreen" THEN alt_screen ELSE FALSE
         /\ raw_mode' = IF fail = "none" THEN FALSE ELSE raw_mode
         /\ trace' = trace \o
                CASE fail = "LeaveAlternateScreen" -> << >>
                  [] fail = "disable_raw_mode" -> << "LeaveAlternateScreen" >>
                  [] OTHER -> << "LeaveAlternateScreen", "disable_raw_mode" >>
         /\ IF fail = "none"
            THEN pc' = "ret_ok" /\ err_src' = err_src
            ELSE pc' = "ret_err" /\ err_src' = "restore_terminal"
    /\ UNCHANGED << payload, model, current_msg, in_msg, ev, iter_model,
                    prev_model, prev_msg, n_updates, hook_installed,
                    seq_kind, n_fed >>
    /\ UNCHANGED main_vars
    /\ UNCHANGED view_vars

\* a panic raised while the session is active (inside draw, the event
\* source or update): the process's panic hook is invoked
panic ==
    /\ pc \in {"draw", "handle_event", "drain"}
    /\ hook_installed
    /\ pc' = "panicking"
    /\ UNCHANGED << payload, model, current_msg, in_msg, ev, iter_model,
                    prev_model, prev_msg, n_updates, raw_mode, alt_screen,
                    hook_installed, trace, err_src, seq_kind, n_fed >>
    /\ UNCHANGED main_vars
    /\ UNCHANGED view_vars

\* lines 191-193: the closure install_panic_hook set, its two restoring
\* calls; an unwrap() of an Err panics inside the hook, which aborts the
\* process on the spot
panic_hook ==
    /\ pc = "panicking"
    /\ \E fail \in {"none", "LeaveAlternateScreen", "disable_raw_mode"} :
         /\ alt_screen' = IF fail = "LeaveAlternateScreen" THEN alt_screen ELSE FALSE
         /\ raw_mode' = IF fail = "none" THEN FALSE ELSE raw_mode
         /\ trace' = trace \o
                CASE fail = "LeaveAlternateScreen" -> << >>
                  [] fail = "disable_raw_mode" -> << "hook:LeaveAlternateScreen" >>
                  [] OTHER -> << "hook:LeaveAlternateScreen", "hook:disable_raw_mode" >>
         /\ pc' = IF fail = "none" THEN "original_hook" ELSE "aborted"
    /\ UNCHANGED << payload, model, current_msg, in_msg, ev, iter_model,
                    prev_model, prev_msg, n_updates, hook_installed, err_src,
                    seq_kind, n_fed >>
    /\ UNCHANGED main_vars
    /\ UNCHANGED view_vars

\* line 194: original_hook(panic_info), the hook taken at line 190, called
\* with the terminal restored; it returns and the panic goes on, or it
\* panics itself (its report cannot be written), which aborts the process
original_hook ==
    /\ pc = "original_hook"
    /\ trace' = Append(trace, "hook:original_hook")
    /\ \E returns \in BOOLEAN :
         pc' = IF returns THEN "panicked" ELSE "aborted"
    /\ UNCHANGED << payload, model, current_msg, in_msg, ev, iter_model,
                    prev_model, prev_msg, n_updates, raw_mode, alt_screen,
                    hook_installed, err_src, seq_kind, n_fed >>
    /\ UNCHANGED main_vars
    /\ UNCHANGED view_vars

Next ==
    \/ install_panic_hook
    \/ init_terminal_enable_raw_mode
    \/ init_terminal_EnterAlternateScreen
    \/ init_terminal_Terminal_new
    \/ model_new
    \/ while_test
    \/ draw
    \/ poll_event
    \/ update_step
    \/ drain_done
    \/ restore_terminal
    \/ panic
    \/ panic_hook
    \/ original_hook

Spec == Init /\ [][Next]_vars

\* one thread runs the loop: a step that only computes (lines 54, 56, 58 and
\* 66-71) is always completed. A step that calls the terminal or the event
\* source (init_terminal, terminal.draw, event::poll / event::read,
\* restore_terminal, the panic hook) may never return: a write to stdout
\* blocks while stdout is not drained and event::poll may not come back
\* once the terminal is hung up; such a step has no fairness, the loop may
\* stay in it for ever.
SpecFair ==
    /\ Spec
    /\ WF_vars(install_panic_hook)
    /\ WF_vars(model_new)
    /\ WF_vars(while_test)
    /\ WF_vars(update_step)
    /\ WF_vars(drain_done)

----------------------------------------------------------------------------
(* main.rs: main, register_api_key, validate_config_and_run                *)

InitMain ==
    /\ pc = "main"
    /\ store \in StoreStates
    /\ store0 = store
    /\ cmd \in Cmds
    /\ main_res = "-"
    /\ payload = << >>
    /\ model = NoModel
    /\ current_msg = None
    /\ in_msg = None
    /\ ev = NoInput
    /\ iter_model = NoModel
    /\ prev_model = NoModel
    /\ prev_msg = None
    /\ n_updates = 0
    /\ raw_mode = FALSE
    /\ alt_screen = FALSE
    /\ hook_installed = FALSE
    /\ trace = << >>
    /\ err_src = "none"
    /\ seq_kind = "none"
    /\ n_fed = 0
    /\ viewed = NoModel
    /\ frame = NoFrame

loop_vars == << payload, model, current_msg, in_msg, ev, iter_model,
                prev_model, prev_msg, n_updates, raw_mode, alt_screen,
                hook_installed, trace, err_src, seq_kind, n_fed, viewed,
                frame >>

\* lines 70-98: with no argument clap prints the help and exits
\* (arg_required_else_help); `login` registers, anything else runs
main_dispatch ==
    /\ pc = "main"
    /\ IF cmd.name = "none"
       THEN pc' = "exit" /\ main_res' = "help"
       ELSE /\ pc' = IF cmd.name = "login" THEN "register_api_key"
                                           ELSE "validate_config_and_run"
            /\ main_res' = main_res
    /\ UNCHANGED << store, store0, cmd >>
    /\ UNCHANGED loop_vars

register_api_key_store_first ==
    /\ pc = "register_api_key"
    /\ \E fail \in {"none", "println", "Entry::new", "set_password"} :
         IF fail = "println"
         THEN pc' = "exit" /\ main_res' = "Panic:println:13" /\ store' = store
         ELSE IF fail = "Entry::new"
         THEN pc' = "exit" /\ main_res' = "Err:Entry::new" /\ store' = store
         ELSE IF fail = "set_password"
         THEN pc' = "exit" /\ main_res' = "Err:set_password" /\ store' = store
         ELSE /\ store' = Stored(cmd.key)
              /\ IF Len(cmd.key) = API_KEY_LEN
                 THEN pc' = "register_stored" /\ main_res' = main_res
                 ELSE pc' = "exit" /\ main_res' = "Err:wrong_length"
    /\ UNCHANGED << store0, cmd >>
    /\ UNCHANGED loop_vars

\* lines 12-29, up to the return of set_password; `fail` the call that
\* fails: println! (line 13) panics when stdout cannot be written, before
\* any keyring call; Entry::new and set_password return Err (set_password is
\* only called for a key of API_KEY_LEN bytes). No panic hook of the
\* application is installed here: the panic ends the process (status 101).
register_api_key ==
    /\ pc = "register_api_key"
    /\ \E fail \in {"none", "println", "Entry::new", "set_password"} :
         IF fail = "println"
         THEN pc' = "exit" /\ main_res' = "Panic:println:13" /\ store' = store
         ELSE IF fail = "Entry::new"
         THEN pc' = "exit" /\ main_res' = "Err:Entry::new" /\ store' = store
         ELSE IF Len(cmd.key) = API_KEY_LEN
         THEN IF fail = "set_password"
              THEN pc' = "exit" /\ main_res' = "Err:set_password" /\ store' = store
              ELSE /\ pc' = "register_stored"
                   /\ main_res' = main_res
                   /\ store' = Stored(cmd.key)
         ELSE pc' = "exit" /\ main_res' = "Err:wrong_length" /\ store' = store
    /\ UNCHANGED << store0, cmd >>
    /\ UNCHANGED loop_vars

\* lines 21 and 31, after set_password has stored the key: println! panics
\* when stdout cannot be written, else the function returns Ok(())
register_api_key_stored ==
    /\ pc = "register_stored"
    /\ \E println_ok \in BOOLEAN :
         main_res' = IF println_ok THEN "Ok" ELSE "Panic:println:21"
    /\ pc' = "exit"
    /\ UNCHANGED << store, store0, cmd >>
    /\ UNCHANGED loop_vars

validate_config_and_run_le ==
    /\ pc = "validate_config_and_run"
    /\ \E fail \in {"none", "Entry::new", "get_password"} :
         IF fail = "Entry::new"
         THEN pc' = "exit" /\ main_res' = "Err:Entry::new" /\ payload' = payload
         ELSE IF fail = "get_password" \/ ~store.present
         THEN pc' = "exit" /\ main_res' = "Err:no_key" /\ payload' = payload
         ELSE IF Len(store.bytes) <= API_KEY_LEN
         THEN /\ pc' = "start"
              /\ payload' = [i \in 1..API_KEY_LEN |->
                               IF i <= Len(store.bytes) THEN store.bytes[i] ELSE 0]
              /\ main_res' = main_res
         ELSE pc' = "exit" /\ main_res' = "Err:wrong_length" /\ payload' = payload
    /\ UNCHANGED << store, store0, cmd >>
    /\ UNCHANGED << model, current_msg, in_msg, ev, iter_model, prev_model,
                    prev_msg, n_updates, raw_mode, alt_screen, hook_installed,
                    trace, err_src, seq_kind, n_fed, viewed, frame >>

\* lines 40-68; `fail` the keyring call that returns Err; get_password also
\* returns Err when nothing is stored. With a key of API_KEY_LEN bytes
\* try_into() succeeds and application_loop is entered with its bytes.
validate_config_and_run ==
    /\ pc = "validate_config_and_run"
    /\ \E fail \in {"none", "Entry::new", "get_password"} :
         IF fail = "Entry::new"
         THEN pc' = "exit" /\ main_res' = "Err:Entry::new" /\ payload' = payload
         ELSE IF fail = "get_password" \/ ~store.present
         THEN pc' = "exit" /\ main_res' = "Err:no_key" /\ payload' = payload
         ELSE IF Len(store.bytes) = API_KEY_LEN
         THEN pc' = "start" /\ payload' = store.bytes /\ main_res' = main_res
         ELSE pc' = "exit" /\ main_res' = "Err:wrong_length" /\ payload' = payload
    /\ UNCHANGED << store, store0, cmd >>
    /\ UNCHANGED << model, current_msg, in_msg, ev, iter_model, prev_model,
                    prev_msg, n_updates, raw_mode, alt_screen, hook_installed,
                    trace, err_src, seq_kind, n_fed, viewed, frame >>

NextMain ==
    \/ main_dispatch
    \/ register_api_key
    \/ register_api_key_stored
    \/ validate_config_and_run
    \/ Next

SpecMain == InitMain /\ [][NextMain]_vars

----------------------------------------------------------------------------
(* Harness: update fed message sequences, each drained by update_step      *)

\* the counters of the Models the harness starts from: every counter the
\* program can hold (update is only called by application_loop, on a Model
\* that Model::new and update made) and those next to them
HarnessCounters == -MaxCounter..MaxCounter

HarnessInit(m) ==
    /\ pc = "feed"
    /\ payload = m.api_key
    /\ model = m
    /\ current_msg = None
    /\ in_msg = None
    /\ ev = NoInput
    /\ iter_model = m
    /\ prev_model = NoModel
    /\ prev_msg = None
    /\ n_updates = 0
    /\ raw_mode = FALSE
    /\ alt_screen = FALSE
    /\ hook_installed = FALSE
    /\ trace = << >>
    /\ err_src = "none"
    /\ seq_kind = "none"
    /\ n_fed = 0
    /\ viewed = NoModel
    /\ frame = NoFrame
    /\ store = NoEntry
    /\ store0 = NoEntry
    /\ cmd = NoCmd
    /\ main_res = "-"

InitSeq ==
    \E p \in Payloads : HarnessInit(Model_new(p))

InitUpdate ==
    \E c \in HarnessCounters, r \in RunningStates, p \in Payloads :
        HarnessInit([counter |-> c, running_state |-> r, api_key |-> p])

\* the next input-derived message; the run length of one and the same message
\* is counted up to MaxFed, and the counter fed stays among HarnessCounters
feed ==
    /\ pc = "feed"
    /\ model.counter \in HarnessCounters
    /\ \E msg \in Messages :
         /\ seq_kind' = IF seq_kind \in {"none", msg} THEN msg ELSE "mixed"
         /\ seq_kind' = "mixed" \/ n_fed < MaxFed
         /\ n_fed' = IF seq_kind' = "mixed" THEN 0 ELSE n_fed + 1
         /\ current_msg' = msg
         /\ in_msg' = msg
    /\ iter_model' = model
    /\ n_updates' = 0
    /\ pc' = "drain"
    /\ UNCHANGED << payload, model, ev, prev_model, prev_msg, raw_mode,
                    alt_screen, hook_installed, trace, err_src >>
    /\ UNCHANGED main_vars
    /\ UNCHANGED view_vars

\* the follow-up chain has ended
feed_done ==
    /\ pc = "drain"
    /\ current_msg = None
    /\ pc' = "feed"
    /\ UNCHANGED << payload, model, current_msg, in_msg, ev, iter_model,
                    prev_model, prev_msg, n_updates, raw_mode, alt_screen,
                    hook_installed, trace, err_src, seq_kind, n_fed >>
    /\ UNCHANGED main_vars
    /\ UNCHANGED view_vars

NextSeq ==
    \/ feed
    \/ update_step
    \/ feed_done

SpecSeq == InitSeq /\ [][NextSeq]_vars

SpecUpdate == InitUpdate /\ [][NextSeq]_vars

----------------------------------------------------------------------------
(* Claims                                                                  *)

\* the hook's own entries of the trace
HookOps == SelectSeq(trace, LAMBDA op :
              op \in {"hook:LeaveAlternateScreen", "hook:disable_raw_mode",
                      "hook:original_hook"})

\* C1: when application_loop returns Err because draw, event::poll or
\* event::read failed (init_terminal having succeeded), the terminal has been
\* restored first: it is neither in raw mode nor on the alternate screen.
C1_RestoredBeforeErr ==
    (pc = "ret_err" /\ err_src \in {"draw", "poll", "read"})
        => (~raw_mode /\ ~alt_screen)

\* C2: once the panic hook has run for a panic raised while the session is
\* active, it has left the alternate screen, then disabled raw mode, and then
\* invoked the previously installed hook, exactly once and in that order.
C2_HookRestoresThenChains ==
    (pc \in {"panicked", "aborted"} /\ hook_installed)
        => HookOps = << "hook:LeaveAlternateScreen", "hook:disable_raw_mode",
                        "hook:original_hook" >>

\* C3 as stated: a fresh Model fed Increment 51 times (or Decrement 51
\* times), each drained, ends with counter 0.
C3_FiftyOneGivesZero ==
    (pc = "feed" /\ seq_kind \in {"Increment", "Decrement"} /\ n_fed = 51)
        => model.counter = 0

\* C3 amended: a fresh Model fed Increment (Decrement) 51 times, each
\* drained, ends with counter 51 (-51); fed it 52 times it ends with counter 0.
C3_FiftyTwoGivesZero ==
    (pc = "feed" /\ seq_kind \in {"Increment", "Decrement"})
        => /\ n_fed = 51 =>
                model.counter = IF seq_kind = "Increment" THEN 51 ELSE -51
           /\ n_fed = 52 => model.counter = 0

C3_Witness ==
    /\ pc = "feed" /\ seq_kind = "Increment" /\ n_fed = 52
    /\ prev_msg = "Reset" /\ prev_model.counter = 52 /\ model.counter = 0

\* C4: for every Model with counter c > 50, update with Increment returns
\* counter c + 1 and the follow-up Reset, and the drained chain ends with
\* counter 0; likewise Decrement for c < -50 with counter c - 1.
C4_OutOfBandResets ==
    /\ (n_updates = 1 /\ prev_msg = "Increment" /\ prev_model.counter > 50)
         => /\ pc \in {"drain", "feed"}
            /\ model.counter > prev_model.counter
            /\ model.counter - prev_model.counter = 1
            /\ current_msg = "Reset"
    /\ (n_updates = 1 /\ prev_msg = "Decrement" /\ prev_model.counter < -50)
         => /\ pc \in {"drain", "feed"}
            /\ model.counter < prev_model.counter
            /\ prev_model.counter - model.counter = 1
            /\ current_msg = "Reset"
    /\ ( /\ pc = "feed" /\ n_updates >= 1
         /\ \/ in_msg = "Increment" /\ iter_model.counter > 50
            \/ in_msg = "Decrement" /\ iter_model.counter < -50 )
         => model.counter = 0

C4_Witness ==
    /\ pc = "feed" /\ in_msg = "Decrement" /\ iter_model.counter = -51
    /\ n_updates = 2 /\ prev_msg = "Reset" /\ prev_model.counter = -52
    /\ model.counter = 0

\* C5: for every Model with -50 <= c <= 50, update with Increment returns
\* counter c + 1 and no follow-up, update with Decrement counter c - 1 and no
\* follow-up.
C5_InBandNoFollowUp ==
    (n_updates >= 1 /\ prev_model.counter \in -50..50)
        => /\ prev_msg = "Increment" =>
                (model.counter = prev_model.counter + 1 /\ current_msg = None)
           /\ prev_msg = "Decrement" =>
                (model.counter = prev_model.counter - 1 /\ current_msg = None)

C5_Witness ==
    /\ n_updates = 1 /\ prev_msg = "Decrement" /\ prev_model.counter = -50
    /\ model.counter = -51 /\ current_msg = None

\* C6: the running state of a Model made by Model::new starts as Running,
\* changes only when update is given Quit, and then from Running to Done;
\* once Done, no message makes it Running again.
C6_RunningStateMonotonic ==
    /\ model.running_state = "Running"
    /\ [][ /\ model.running_state = "Done" => model'.running_state = "Done"
           /\ model'.running_state # model.running_state =>
                (pc = "drain" /\ current_msg = "Quit") ]_vars

C6_Witness ==
    /\ n_updates >= 1 /\ prev_model.running_state = "Done"
    /\ prev_msg = "Reset" /\ model.running_state = "Done"

\* C7: in application_loop the api_key of the Model always equals the payload
\* given to Model::new, and no call of update returns a Model whose api_key
\* differs from the one it was given.
C7_PayloadInvariant ==
    model # NoModel
        => /\ model.api_key = payload
           /\ Len(model.api_key) = API_KEY_LEN
           /\ n_updates >= 1 => model.api_key = prev_model.api_key

C7_Witness ==
    /\ pc = "ret_ok" /\ prev_msg = "Quit" /\ model.running_state = "Done"
    /\ model.counter # 0 /\ model.api_key = payload /\ payload[1] # 0

\* C8: for every Model, update with Quit returns the same Model with
\* running_state Done (counter and api_key unchanged) and no follow-up.
C8_QuitFrame ==
    (n_updates >= 1 /\ prev_msg = "Quit")
        => /\ model = [prev_model EXCEPT !.running_state = "Done"]
           /\ current_msg = None

C8_Witness ==
    /\ n_updates = 1 /\ prev_msg = "Quit"
    /\ prev_model.running_state = "Running" /\ prev_model.counter = 52
    /\ model.running_state = "Done" /\ model.counter = 52

\* C9: for every Model, update with Reset returns the same Model with counter
\* 0 (running_state and api_key unchanged) and no follow-up.
C9_ResetFrame ==
    (n_updates >= 1 /\ prev_msg = "Reset")
        => /\ model = [prev_model EXCEPT !.counter = 0]
           /\ current_msg = None

C9_Witness ==
    /\ n_updates = 1 /\ prev_msg = "Reset"
    /\ prev_model.running_state = "Done" /\ prev_model.counter = -52
    /\ model.running_state = "Done" /\ model.counter = 0

\* the input is a press of 'j', 'k' or 'q'
MappedPress(inp) ==
    inp.src = "event" /\ inp.type = "Key" /\ inp.kind = "Press"
        /\ inp.code \in {"j", "k", "q"}

\* C10: in an iteration whose input is a timeout, a non-key event, a key
\* release or repeat, or a press of an unmapped key, handle_event yields no
\* Message, update is not called and the Model is the one the iteration
\* started with.
C10_NoInputNoChange ==
    (pc \in {"drain", "while"} /\ ~MappedPress(ev))
        => /\ in_msg = None
           /\ current_msg = None
           /\ n_updates = 0
           /\ model = iter_model

C10_Witness ==
    /\ pc = "while" /\ ev.src = "event" /\ ev.type = "Key"
    /\ ev.code = "x" /\ ev.kind = "Press"
    /\ in_msg = None /\ n_updates = 0 /\ model.counter = 51

\* the session operations of a run that ends with Ok
NormalTrace ==
    << "install_panic_hook", "enable_raw_mode", "EnterAlternateScreen",
       "LeaveAlternateScreen", "disable_raw_mode" >>

\* C11: once an update-drain phase has ended with running_state Done there is
\* no further render, poll or update: the loop exits to restore_terminal,
\* which is called once, and when it succeeds application_loop returns Ok
\* with the session begun once and restored once.
C11_ExitAfterDone ==
    /\ [](pc = "ret_ok" =>
            /\ model.running_state = "Done"
            /\ trace = NormalTrace
            /\ ~raw_mode /\ ~alt_screen)
    /\ [][ model.running_state = "Done" =>
            /\ model' = model /\ current_msg' = current_msg
            /\ prev_model' = prev_model /\ prev_msg' = prev_msg
            /\ UNCHANGED view_vars /\ ev' = ev
            /\ pc = "drain" => pc' \in {"while", "panicking"}
            /\ pc = "while" => pc' = "restore_terminal"
            /\ pc = "restore_terminal" =>
                 \/ pc' = "ret_ok"
                 \/ pc' = "ret_err" /\ err_src' = "restore_terminal" ]_vars

C11_Witness ==
    /\ pc = "ret_ok" /\ trace = NormalTrace /\ model.running_state = "Done"
    /\ model.counter = -51 /\ viewed.running_state = "Running"

MainPcs == {"main", "register_api_key", "register_stored",
            "validate_config_and_run", "exit"}

\* C12: validate_config_and_run enters application_loop only with the bytes
\* of a retrieved secret of exactly 32 bytes; when retrieval fails or the
\* length differs it returns an error and no panic hook has been installed,
\* no terminal mode touched and no Model created.
C12_RunOnlyWith32Bytes ==
    /\ pc \notin MainPcs =>
         /\ cmd.name = "run"
         /\ store.present /\ Len(store.bytes) = API_KEY_LEN
         /\ payload = store.bytes
    /\ (pc = "exit" /\ cmd.name = "run") =>
         /\ main_res \in {"Err:Entry::new", "Err:no_key", "Err:wrong_length"}
         /\ ~store.present => main_res # "Err:wrong_length"
         /\ (store.present /\ Len(store.bytes) # API_KEY_LEN) => main_res # "Ok"
         /\ ~hook_installed /\ trace = << >>
         /\ ~raw_mode /\ ~alt_screen
         /\ model = NoModel

C12_Witness ==
    /\ pc = "exit" /\ cmd.name = "run" /\ main_res = "Err:wrong_length"
    /\ store.present /\ Len(store.bytes) = API_KEY_LEN + 1
    /\ ~hook_installed /\ model = NoModel

\* the ways register_api_key returns an error
RegisterErrs == {"Err:Entry::new", "Err:set_password", "Err:wrong_length"}

\* C13 as stated: register_api_key has written the key to the store if and
\* only if the key is 32 bytes long; for any other length it has returned an
\* error and the store is as it was.
C13_WritesIffLen32 ==
    (pc = "exit" /\ cmd.name = "login") =>
        /\ Len(cmd.key) = API_KEY_LEN => store = Stored(cmd.key)
        /\ Len(cmd.key) # API_KEY_LEN =>
             (main_res \in RegisterErrs /\ store = store0)

\* C13 amended: register_api_key writes the key only if it is 32 bytes long,
\* and then writes it unless the first println! panics or Entry::new or
\* set_password returns Err; whenever it returns an error, and for every
\* other length, the store is as it was, and for another length it returns
\* an error unless the first println! panics; it returns Ok only with the
\* key stored (after the write the second println! may panic instead).
C13_WritesOnlyLen32 ==
    cmd.name = "login" =>
        /\ store # store0 =>
             /\ Len(cmd.key) = API_KEY_LEN /\ store = Stored(cmd.key)
             /\ pc \in {"register_stored", "exit"}
             /\ main_res \in {"-", "Ok", "Panic:println:21"}
        /\ pc = "register_stored" =>
             (Len(cmd.key) = API_KEY_LEN /\ store = Stored(cmd.key))
        /\ pc = "exit" =>
             /\ main_res \in RegisterErrs
                    \cup {"Ok", "Panic:println:13", "Panic:println:21"}
             /\ main_res \in {"Ok", "Panic:println:21"} =>
                  (Len(cmd.key) = API_KEY_LEN /\ store = Stored(cmd.key))
             /\ main_res \in RegisterErrs \cup {"Panic:println:13"} =>
                  store = store0
             /\ Len(cmd.key) # API_KEY_LEN =>
                  main_res \in {"Err:Entry::new", "Err:wrong_length",
                                "Panic:println:13"}
             /\ Len(cmd.key) = API_KEY_LEN => main_res # "Err:wrong_length"

C13_Witness ==
    /\ pc = "exit" /\ cmd.name = "login" /\ main_res = "Ok"
    /\ Len(cmd.key) = API_KEY_LEN /\ store = Stored(cmd.key)
    /\ store0 # store /\ store0.present

\* C14: while a follow-up message is pending the loop neither renders nor
\* polls: the next step is another update; view is only ever passed a Model
\* with no message pending, so never one produced by a step that emitted a
\* follow-up (counter 52 or -52).
C14_DrainBeforeRender ==
    /\ [](pc \in {"draw", "handle_event"} => current_msg = None)
    /\ [](viewed # NoModel => viewed.counter \notin {52, -52})
    /\ [][ (pc = "drain" /\ current_msg # None) =>
             /\ pc' \in {"drain", "panicking"}
             /\ UNCHANGED view_vars /\ ev' = ev ]_vars
    /\ [][ pc = "draw" => (viewed' = viewed \/ viewed' = model) ]_vars

C14_Witness ==
    /\ pc = "draw" /\ current_msg = None
    /\ prev_msg = "Reset" /\ prev_model.counter = 52
    /\ model.counter = 0 /\ viewed.counter = 51

\* the input is a press of 'q'
QPress(inp) ==
    inp.src = "event" /\ inp.type = "Key" /\ inp.kind = "Press" /\ inp.code = "q"

\* every call of restore_terminal and of the panic hook returns: none of
\* them stays blocked in its write for ever
TerminalCallsReturn ==
    /\ WF_vars(restore_terminal)
    /\ WF_vars(panic_hook)
    /\ WF_vars(original_hook)

\* C15: the loop is left for restore_terminal, and application_loop returns
\* Ok, only after update has processed the Quit of a press of 'q', and it
\* returns Ok only with the terminal restored; and, no I/O failing (a call
\* that returns Err or that never returns) and nothing panicking, once a
\* press of 'q' is delivered the loop exits and application_loop returns Ok
\* with the terminal restored.
C15_OnlyQuitTerminates ==
    /\ [](pc \in {"restore_terminal", "ret_ok"} =>
            /\ QPress(ev) /\ prev_msg = "Quit"
            /\ model.running_state = "Done")
    /\ [](pc = "ret_ok" => (~raw_mode /\ ~alt_screen))
    /\ TerminalCallsReturn =>
         ((pc = "drain" /\ in_msg = "Quit")
            ~> \/ pc = "ret_ok" /\ ~raw_mode /\ ~alt_screen
               \/ pc \in {"ret_err", "panicked", "aborted"})

C15_Witness ==
    /\ pc = "ret_ok" /\ QPress(ev) /\ prev_msg = "Quit"
    /\ model.running_state = "Done" /\ model.counter = 51
    /\ ~raw_mode /\ ~alt_screen

\* C16: rendering has no effect on the Model: the Model the loop holds after
\* terminal.draw / view equals the one it held before.
C16_ViewKeepsModel ==
    [][ pc = "draw" => model' = model ]_vars

C16_Witness ==
    /\ pc = "handle_event" /\ viewed = model /\ model.counter = 51
    /\ frame = view_widgets(model)

\* C17: when init_terminal fails, application_loop returns that error and
\* no frame has been drawn, no input polled and no update applied.
C17_InitFailureReturnsFirst ==
    err_src = "init_terminal" =>
        /\ pc = "ret_err"
        /\ model = NoModel
        /\ viewed = NoModel /\ frame = NoFrame
        /\ ev = NoInput
        /\ n_updates = 0 /\ prev_msg = None

C17_Witness ==
    /\ pc = "ret_err" /\ err_src = "init_terminal"
    /\ raw_mode /\ ~alt_screen /\ model = NoModel

\* C18: in application_loop every Model held has its counter in -52..52,
\* every Model passed to view has it in -51..51, and no update the loop
\* performs overflows i32.
C18_CounterBand ==
    /\ model.counter \in -52..52
    /\ viewed.counter \in -51..51
    /\ (pc = "drain" /\ current_msg # None) => ~update_overflows(model, current_msg)

C18_Witness ==
    /\ pc = "drain" /\ model.counter = -52 /\ current_msg = "Reset"
    /\ viewed.counter = -51

\* C19: for every Model and every input-derived message the update-drain
\* loop calls update at most twice: the only follow-up a call returns is
\* Reset, returned by the first call, and the call for Reset returns none.
C19_ChainAtMostOne ==
    /\ n_updates <= 2
    /\ (pc \in {"drain", "feed"} /\ n_updates >= 1 /\ current_msg # None) =>
         (current_msg = "Reset" /\ n_updates = 1 /\ prev_msg \in {"Increment", "Decrement"})
    /\ n_updates = 2 => (prev_msg = "Reset" /\ current_msg = None)

C19_Witness ==
    /\ pc = "feed" /\ n_updates = 2 /\ in_msg = "Decrement"
    /\ iter_model.counter = -53 /\ model.counter = 0

\* C20: the restoring panic hook is installed before the session begins:
\* whenever the terminal is in raw mode or on the alternate screen the hook
\* is installed, and install_panic_hook precedes every session operation.
C20_HookBeforeSession ==
    /\ (raw_mode \/ alt_screen) => hook_installed
    /\ trace # << >> => trace[1] = "install_panic_hook"

C20_Witness ==
    /\ pc = "EnterAlternateScreen" /\ raw_mode /\ ~alt_screen /\ hook_installed
    /\ trace = << "install_panic_hook", "enable_raw_mode" >>

====
